---- MODULE Spec2Model ----
(***************************************************************************)
(* Model of pserver.gcloudstorage/storage.py: the request handlers of      *)
(* GCloudFileManager (upload, tus_create, tus_patch, tus_head,             *)
(* tus_options) working on the one GCloudFile of a file slot, and the      *)
(* resumable-upload backend they talk to.                                  *)
(*                                                                         *)
(* Bytes are not stored one by one.  The body of a request is a stream of  *)
(* avail bytes; stream byte i is byte base + i of the file the client is   *)
(* sending.  A handler's buffer `data` is always the stream slice          *)
(* [da, rd): the code only cuts it at the front and extends it with what   *)
(* it reads next.  The bytes the backend holds for an object are a set of  *)
(* runs <<s, e, d>>: object positions s .. e-1 hold the client's file      *)
(* bytes s+d .. e-1+d.  They are recorded for the object of the resume     *)
(* scenario (scen.runs), the one whose content the specification speaks    *)
(* of; for every object the backend state records whether it exists.       *)
(*                                                                         *)
(* A handler runs without interruption from one await to the next (the     *)
(* POST of initUpload, the PUT of appendData and the read of its answer,   *)
(* the exit of either "async with" block, a read of the request body, the  *)
(* notify of finishUpload when the handler still reads the file after it); *)
(* each action below is one such stretch.                                  *)
(* The backend is remote: it acts on a PUT in a step of its own, before    *)
(* the handler learns the answer.                                          *)
(***************************************************************************)
EXTENDS Integers, FiniteSets, Sequences, TLC

\* ---- program constants
MAX_RETRIES == 5
CHUNK_SIZE == 524288
MIN_CHUNK == 262144

\* Python None, and "the attribute was never set" (hasattr is False)
None == -1
Unset == -2

\* ---- bounds of the model
MaxRequests == 3
MaxPuts == 7
MaxContinues == 2
\* 308 answers to one request while two handlers run at once
ConcContinues == 1

Procs == {1, 2}
Keys == 1 .. MaxRequests

Min(a, b) == IF a < b THEN a ELSE b
Max(a, b) == IF a > b THEN a ELSE b

VARIABLES
  file,    \* the GCloudFile stored in the field (exists = FALSE: field.get is None)
  objs,    \* backend: per object key, its state and the bytes stored for it
  nextId,  \* the next value uuid.uuid4() yields
  h,       \* per request handler: its position and local variables
  events,  \* the last InitialGCloudUpload and FinishGCloudUpload notifications,
           \*   each named by the object key the upload had
  nreq,    \* requests started so far
  scen     \* history: how far the run follows the resume scenario of the spec

vars == <<file, objs, nextId, h, events, nreq, scen>>

\* ---- GCloudFile

\* GCloudFile.__init__ with no filename: only contentType and _current_upload
NewFile ==
  [exists |-> TRUE, _current_upload |-> 0, _size |-> Unset,
   _upload_file_id |-> Unset, _resumable_uri |-> Unset, _uri |-> Unset,
   _md5hash |-> Unset, _extension |-> Unset, filename |-> None,
   _resumable_uri_date |-> Unset]

NoFile == [NewFile EXCEPT !.exists = FALSE]

actualSize(f) == f._current_upload

\* the size property: hasattr(self, '_size') ? self._size : None
size(f) == IF f._size = Unset THEN None ELSE f._size

\* hasattr(self, a) and self.a is not None
IsSet(v) == v # Unset /\ v # None

\* ---- backend objects

NoObject == [st |-> "none"]

\* objects().delete(...).execute(): a complete object is removed when the call
\* succeeds; an HttpError (a failed call, or no such object) changes nothing
DeleteObject(o, key, delOk) ==
  IF delOk /\ o[key].st = "complete"
    THEN [o EXCEPT ![key].st = "deleted"]
    ELSE o

\* the runs of rs outside positions s .. e-1 (an empty range cuts nothing)
Clip(rs, s, e) ==
  IF s >= e THEN rs
  ELSE {<<r[1], Min(r[2], s), r[3]>> : r \in {x \in rs : x[1] < Min(x[2], s)}}
       \cup {<<Max(r[1], e), r[2], r[3]>> : r \in {x \in rs : Max(x[1], e) < x[2]}}

\* rs after bytes ident .. ident+(e-s)-1 of the client's file are written at
\* s .. e-1; runs that continue each other are kept as one run
Overlay(rs, s, e, ident) ==
  LET d == ident - s
      c == Clip(rs, s, e)
      lt == {q \in c : q[2] = s /\ q[3] = d}
      rt == {q \in c : q[1] = e /\ q[3] = d}
      s1 == IF lt = {} THEN s ELSE (CHOOSE q \in lt : TRUE)[1]
      e1 == IF rt = {} THEN e ELSE (CHOOSE q \in rt : TRUE)[2]
  IN  IF s < e THEN (c \ (lt \cup rt)) \cup {<<s1, e1, d>>} ELSE rs

\* the object holds exactly bytes 0 .. total-1 of the client's file, each at its place
ExactContent(rs, total) ==
  /\ \A r \in rs : r[3] = 0 /\ r[1] >= 0 /\ r[2] <= total
  /\ total > 0 => \E r \in rs : r[1] = 0
  /\ \A r \in rs : r[2] = total \/ \E q \in rs : q[1] = r[2]

\* ---- request bodies and buffers

\* data[r:] for the buffer [da, rd): the new da
Slice(da, rd, r) == IF r >= 0 THEN Min(da + r, rd) ELSE Max(da, rd + r)

\* request.content.readexactly(n), IncompleteReadError.partial included: the new rd
\* (ReadExactlyOrNothing is the variant that keeps nothing of a short read)
ReadExactlyOrNothing(rd, avail, n) == IF avail - rd >= n THEN rd + Max(0, n) ELSE rd
ReadExactly(rd, avail, n) == rd + Max(0, Min(n, avail - rd))


\* the Range header of a 308 answer, "bytes=0-k", and the code's reading of it:
\* int(call.headers['Range'].split('-')[1])
RangeHeader(k) == <<"bytes=0", k>>
ParseRange(hdr) == hdr[2]
NoHeader == <<>>

\* ---- the staging buffer of a download, a BytesIO: it holds len bytes, the
\* object's bytes start .. start+len-1 unless writes have mixed it, and pos is
\* its file position
EmptyBuffer == [start |-> 0, len |-> 0, pos |-> 0, mixed |-> FALSE]

\* MediaIoBaseDownload.next_chunk writes the c bytes it fetched, the object's
\* bytes from at on, into the buffer at its position
BufWrite(b, at, c) ==
  IF b.len = 0 /\ b.pos = 0
    THEN [start |-> at, len |-> c, pos |-> c, mixed |-> FALSE]
    ELSE [b EXCEPT !.len = Max(b.len, b.pos + c), !.pos = b.pos + c,
                   !.mixed = b.mixed \/ b.start + b.pos # at]

\* buf.seek(0)
BufSeek(b) == [b EXCEPT !.pos = 0]

\* buf.read(): the bytes from the position to the end, as the count read
\* (BufReadNothing is the variant that returns no byte)
BufReadNothing(b) == 0
BufRead(b) == b.len - b.pos

\* buf.truncate(): the buffer is cut at its position
\* (BufTruncateKeeps is the variant that cuts nothing)
BufTruncateKeeps(b) == b
BufTruncate(b) == [b EXCEPT !.len = Min(b.len, b.pos)]

\* the state of one download: the object's size N, the reader's progress, the
\* bytes written to the response (out) and those not yet drained (pend);
\* inorder: every write so far continued the object where the last one ended
NoDownload ==
  [N |-> 0, progress |-> 0, done |-> FALSE, out |-> 0, pend |-> 0,
   inorder |-> TRUE, buf |-> EmptyBuffer]

\* ---- a handler's local variables

NoPut == [start |-> 0, n |-> 0, total |-> 0, uri |-> None, ident |-> 0]

\* call.status and call.headers['Range'] of the answer to a PUT (a POST: status)
NoAnswer == [status |-> 0, hdr |-> NoHeader]

IdleL ==
  [kind |-> "idle", pc |-> "idle",
   avail |-> 0, base |-> 0,      \* the request body
   cl |-> None,                  \* the CONTENT-LENGTH a Patch declared
   lacks |-> FALSE,              \* the request came without a header it needs
   da |-> 0, rd |-> 0,           \* data = body[da .. rd-1]
   toread |-> 0,                 \* argument of the pending readexactly
   count |-> 0, old |-> 0,       \* count, old_current_upload
   put |-> NoPut,                \* the PUT in flight
   ans |-> NoAnswer,             \* the backend's answer to the PUT or POST
   key |-> None,                 \* the object key named in the POST in flight
   del |-> None, delok |-> FALSE,  \* the pending object initUpload asked the
                                 \*   backend to delete, and whether it did
   nput |-> 0,                   \* PUTs sent by this request
   ncont |-> 0,                  \* 308 answers received by this request
   tries |-> 0, trans |-> 0,     \* PUTs sent / answered with a transient status
   moved |-> FALSE,              \*   since the request began or the last 308
   ackd |-> None,                \* bytes acknowledged by the last answer, if a 308
   dl |-> NoDownload,            \* the download in progress
   result |-> "none", offset |-> None, length |-> None]

\* the handler returns (res is "ok", "created", "head" or "options") or raises
\* (res names the error); offset is the Upload-Offset it reports
Done(l, res, off) ==
  [IdleL EXCEPT !.kind = l.kind, !.pc = "done", !.result = res, !.offset = off,
                !.dl = l.dl, !.lacks = l.lacks,
                !.del = IF res = "created" THEN l.del ELSE None,
                !.delok = IF res = "created" THEN l.delok ELSE FALSE,
                !.tries = IF res = "MaxRetries" THEN l.tries ELSE 0,
                !.trans = IF res = "MaxRetries" THEN l.trans ELSE 0,
                !.moved = IF res = "MaxRetries" THEN l.moved ELSE FALSE]

\* count > MAX_RETRIES
RetriesExceeded(count) == count > MAX_RETRIES

\* ---- GCloudFile.finishUpload on the world w = [f, o, l, ev]
finishUpload(w, delOk) ==
  [w EXCEPT !.o = IF IsSet(w.f._uri) THEN DeleteObject(@, w.f._uri, delOk) ELSE @,
            !.f._uri = w.f._upload_file_id,
            !.f._upload_file_id = None,
            !.ev.finish = w.f._upload_file_id]

\* ---- GCloudFile.appendData, up to the PUT being sent
SendPut(w) ==
  IF w.f._size = Unset \/ w.f._resumable_uri = Unset
    THEN [w EXCEPT !.l = Done(w.l, "AttributeError", None)]
    ELSE [w EXCEPT !.l.pc = "put",
                   !.l.old = w.f._current_upload,
                   !.l.put = [start |-> w.f._current_upload,
                              n |-> w.l.rd - w.l.da,
                              total |-> w.f._size,
                              uri |-> w.f._resumable_uri,
                              ident |-> w.l.base + w.l.da],
                   !.l.nput = @ + 1,
                   !.l.tries = @ + 1]

\* GCloudFile.appendData, the answer: what it does to _current_upload
\* (appendDataKeeps is the variant that ignores the answer)
appendDataKeeps(f, status, hdr) == f
appendData(f, status, hdr) ==
  IF status = 308 THEN [f EXCEPT !._current_upload = ParseRange(hdr)]
  ELSE IF status \in {200, 201} THEN [f EXCEPT !._current_upload = f._size]
  ELSE f

\* the backend answers a PUT with status: the session's object becomes complete
\* on 200/201
BackendPut(o, put, status) ==
  IF o[put.uri].st = "open" /\ status \in {200, 201}
    THEN [o EXCEPT ![put.uri].st = "complete"]
    ELSE o

\* the bytes of the object after the backend answered the PUT put with status and
\* Range header hdr: all of the PUT's bytes on 200/201, those up to the
\* acknowledged byte on 308, at the positions its Content-Range names
StoredBytes(rs, put, status, hdr) ==
  IF status \in {200, 201}
    THEN Overlay(rs, put.start, put.start + put.n, put.ident)
  ELSE IF status = 308 /\ hdr # NoHeader
    THEN Overlay(rs, put.start, Min(put.start + put.n, ParseRange(hdr) + 1), put.ident)
  ELSE rs

\* ---- tus_patch, after its loop: the response
PatchResponse(w) ==
  IF w.f._resumable_uri_date = Unset
    THEN [w EXCEPT !.l = Done(w.l, "AttributeError", None)]
    ELSE [w EXCEPT !.l = Done(w.l, "ok", actualSize(w.f))]

\* the end of the loop of upload (then finishUpload) and of tus_patch
LoopExit(w, delOk) ==
  IF w.l.kind = "upload"
    THEN [finishUpload(w, delOk) EXCEPT !.l = Done(w.l, "ok", None)]
    ELSE PatchResponse(w)

\* while data: ... resp = await file.appendData(data)
LoopHead(w, delOk) ==
  IF w.l.rd > w.l.da THEN SendPut(w) ELSE LoopExit(w, delOk)

\* tus_patch, lines 238-262 after a 200/201: finishUpload has returned and data
\* is None; w.l.toread holds bytes_to_read
PatchAfterNotify(w) ==
  IF w.l.toread = 0 \/ w.l.toread < MIN_CHUNK
    THEN PatchResponse(w)
  ELSE IF RetriesExceeded(w.l.count + 1)
    THEN [w EXCEPT !.l = Done(w.l, "MaxRetries", None)]
  ELSE PatchResponse(w)

\* tus_patch, lines 221-262: the rest of one turn of the loop, w.f being the file
\* as appendData left it; after a 200/201 it runs up to the notify that ends
\* finishUpload
PatchAfter(w, status, delOk) ==
  LET ok == status \in {200, 201}
      readed_bytes == IF ok THEN w.f._current_upload - w.l.old
                      ELSE w.f._current_upload - w.l.old + 1
      da1 == IF ok THEN w.l.rd ELSE Slice(w.l.da, w.l.rd, readed_bytes)
      bytes_to_read == w.l.rd - Slice(w.l.da, w.l.rd, readed_bytes)
      w2 == [w EXCEPT !.l.da = da1]
  IN  IF ok
        THEN [finishUpload(w2, delOk) EXCEPT !.l.pc = "notify",
                                             !.l.toread = bytes_to_read]
      ELSE IF bytes_to_read = 0 \/ bytes_to_read < MIN_CHUNK \/ status = 400
        THEN PatchResponse(w2)
      ELSE IF status = 308
        THEN [w2 EXCEPT !.l.count = 0, !.l.pc = "read", !.l.toread = bytes_to_read]
      ELSE IF RetriesExceeded(w.l.count + 1)
        THEN [w2 EXCEPT !.l = Done(w2.l, "MaxRetries", None)]
      ELSE SendPut([w2 EXCEPT !.l.count = @ + 1])

\* upload, lines 137-155
UploadAfter(w, status, delOk) ==
  LET readed_bytes == w.f._current_upload - w.l.old
      w2 == [w EXCEPT !.l.da = Slice(w.l.da, w.l.rd, readed_bytes)]
  IN  IF status \in {200, 201}
        THEN LoopExit(w2, delOk)
      ELSE IF status = 308
        THEN [w2 EXCEPT !.l.count = 0, !.l.pc = "read", !.l.toread = readed_bytes]
      ELSE IF RetriesExceeded(w.l.count + 1)
        THEN [w2 EXCEPT !.l = Done(w2.l, "MaxRetries", None)]
      ELSE LoopHead([w2 EXCEPT !.l.count = @ + 1], delOk)


\* ---- GCloudFile.initUpload, up to the POST being sent: the previous pending
\* object is deleted (errors swallowed) and a fresh key is drawn
\* (initUploadStrict is the variant in which a failed delete ends the request)
initUploadStrict(w, id, delOk) ==
  IF IsSet(w.f._upload_file_id) /\ ~delOk
    THEN [w EXCEPT !.l = Done(w.l, "HttpError", None)]
    ELSE [w EXCEPT !.f._upload_file_id = id, !.l.key = id, !.l.pc = "post"]
initUpload(w, id, delOk) ==
  [w EXCEPT !.o = IF IsSet(w.f._upload_file_id)
                    THEN DeleteObject(@, w.f._upload_file_id, delOk) ELSE @,
            !.f._upload_file_id = id,
            !.l.key = id,
            !.l.del = IF IsSet(w.f._upload_file_id) THEN w.f._upload_file_id ELSE None,
            !.l.delok = IsSet(w.f._upload_file_id) /\ delOk,
            !.l.pc = "post"]

\* initUpload, lines 385-388: the answer to the POST, inside the "async with"
\* block; the block is then left, with GoogleCloudException raised when the
\* status is not 200
initUploadAnswer(w, status) ==
  IF status # 200
    THEN [w EXCEPT !.l.pc = "postexit", !.l.ans.status = status]
    ELSE [w EXCEPT !.o[w.l.key].st = "open",
                   !.f._resumable_uri = w.l.key,
                   !.l.pc = "postexit", !.l.ans.status = status]

\* initUpload, lines 389-392, once the block is left, and the caller after it:
\* tus_create answers, upload goes to its first read
initUploadReturns(w) ==
  IF w.l.ans.status # 200
    THEN [w EXCEPT !.l = Done(w.l, "GoogleCloudException", None)]
    ELSE LET w1 == [w EXCEPT !.f._current_upload = 0,
                             !.f._resumable_uri_date = w.l.key,
                             !.ev.init = w.l.key,
                             !.l.ans = NoAnswer]
         IN  IF w.l.kind = "upload"
               THEN [w1 EXCEPT !.l.pc = "read", !.l.toread = CHUNK_SIZE]
               ELSE [w1 EXCEPT !.l = Done(w.l, "created", None)]

\* ---- the history of the resume scenario: Create, then Patches one after the
\* other, each at the offset where the previous chunk ended and delivering all its
\* bytes, answered 308 (an acknowledged range inside what was sent) until the
\* append that carries the last byte of the file is answered 200/201
ScenOff ==
  [ok |-> FALSE, pending |-> 0, who |-> 0, L |-> 0, sent |-> 0, fin |-> FALSE,
   nput |-> 0, npatch |-> 0, key |-> None, heads |-> {}, runs |-> {}]

Quiet(p) == \A q \in Procs \ {p} : h[q].pc \in {"idle", "done"}

World(p) == [f |-> file, o |-> objs, l |-> h[p], ev |-> events]

Fresh(p, kind, hd) ==
  [IdleL EXCEPT !.kind = kind, !.avail = hd.avail]

CanStart(p) == h[p].pc \in {"idle", "done"} /\ nreq < MaxRequests

\* the world w becomes the next state
Becomes(p, w) ==
  /\ w.l.nput <= MaxPuts
  /\ file' = w.f
  /\ objs' = w.o
  /\ events' = w.ev
  /\ h' = [h EXCEPT ![p] = w.l]

\* ---- the requests a client may send
Absent == None

UploadRequests ==
  {[size |-> 10, md5 |-> 1, ext |-> 1, fname |-> 1, avail |-> 10],
   [size |-> 10, md5 |-> Absent, ext |-> Absent, fname |-> Absent, avail |-> 0],
   [size |-> Absent, md5 |-> Absent, ext |-> Absent, fname |-> Absent, avail |-> 10]}

CreateRequests ==
  {[override |-> FALSE, cl |-> 0, len |-> n, md5 |-> 1, ext |-> 1, tus |-> TRUE,
    meta |-> TRUE, off |-> Absent, avail |-> 0] : n \in {10, 1000000}}
  \cup
  {[override |-> FALSE, cl |-> 5, len |-> Absent, md5 |-> 1, ext |-> 1,
    tus |-> TRUE, meta |-> TRUE, off |-> Absent, avail |-> 0],
   [override |-> FALSE, cl |-> 0, len |-> 10, md5 |-> 1, ext |-> 1,
    tus |-> FALSE, meta |-> TRUE, off |-> Absent, avail |-> 0],
   [override |-> TRUE, cl |-> 5, len |-> Absent, md5 |-> Absent, ext |-> Absent,
    tus |-> TRUE, meta |-> FALSE, off |-> 5, avail |-> 5]}

PatchRequests ==
  {[cl |-> 10, off |-> 0, avail |-> 10],
   [cl |-> 5, off |-> 0, avail |-> 5],
   [cl |-> 5, off |-> 5, avail |-> 5],
   [cl |-> 5, off |-> 5, avail |-> 3],
   [cl |-> 5, off |-> 20, avail |-> 5],
   [cl |-> 0, off |-> 10, avail |-> 0],
   [cl |-> 1000000, off |-> 0, avail |-> 1000000],
   [cl |-> Absent, off |-> 0, avail |-> 5],
   [cl |-> 5, off |-> Absent, avail |-> 5]}

Statuses == {200, 201, 308, 400, 503}

\* the sizes of the object a download may find, and the lengths of the chunk a
\* call of next_chunk may deliver when rem bytes of the object are left
\* (chunksize = CHUNK_SIZE)
ObjectSizes == {10, CHUNK_SIZE, 1000000}
ChunkLens(rem) == {Min(CHUNK_SIZE, rem), Min(MIN_CHUNK, rem)}

\* the last byte index a 308 answer may acknowledge for the PUT put: all of it,
\* and when partial answers are drawn, its first CHUNK_SIZE bytes or none of it
RangeLasts(put, partial) ==
  {put.start + put.n - 1}
  \cup (IF partial /\ put.n > CHUNK_SIZE THEN {put.start + CHUNK_SIZE - 1} ELSE {})
  \cup (IF partial /\ put.start > 0 THEN {put.start - 1} ELSE {})

RangeHeaders(put, partial) ==
  {NoHeader} \cup {RangeHeader(k) : k \in RangeLasts(put, partial)}


\* ---- GCloudFileManager.upload, lines 95-127, up to the POST of initUpload
upload(p, reqs) ==
  \E hd \in reqs, delOk \in BOOLEAN :
    /\ CanStart(p)
    /\ nreq' = nreq + 1
    /\ scen' = ScenOff
    /\ LET f0 == IF file.exists THEN file ELSE NewFile
           f1 == [f0 EXCEPT !._md5hash = hd.md5, !._extension = hd.ext]
           f2 == [f1 EXCEPT !._size = hd.size,
                            !.filename = IF hd.fname = Absent THEN 3 ELSE hd.fname]
           l0 == Fresh(p, "upload", hd)
       IN  IF hd.size = Absent
             THEN /\ Becomes(p, [World(p) EXCEPT !.f = f1,
                                                 !.l = Done(l0, "MissingHeader", None)])
                  /\ nextId' = nextId
             ELSE /\ Becomes(p, initUpload([World(p) EXCEPT !.f = f2, !.l = l0],
                                           nextId, delOk))
                  /\ nextId' = nextId + 1

\* tus_patch, lines 204-212: 'CONTENT-LENGTH' or 'UPLOAD-OFFSET' not in the headers
\* (PatchLengthMissing is the variant that does not look for UPLOAD-OFFSET)
PatchLengthMissing(hd) == hd.cl = Absent
PatchHeadersMissing(hd) == hd.cl = Absent \/ hd.off = Absent

\* tus_create, lines 173-176: 'UPLOAD-LENGTH' not in the headers
CreateLengthMissing(hd) == hd.len = Absent

\* ---- GCloudFileManager.tus_patch, lines 203-214, up to the read of the body
PatchStart(p, hd) ==
  LET l0 == [Fresh(p, "patch", hd) EXCEPT !.base = IF hd.off = Absent THEN 0 ELSE hd.off,
                                          !.cl = hd.cl,
                                          !.lacks = (hd.cl = Absent \/ hd.off = Absent)]
      inScen == /\ scen.ok /\ ~scen.fin /\ Quiet(p)
                /\ hd.cl # Absent /\ hd.off # Absent
                /\ hd.off = scen.sent /\ hd.avail = hd.cl /\ hd.cl > 0
                /\ hd.off + hd.cl <= scen.L
  IN  /\ nextId' = nextId
      /\ scen' = IF inScen
                   THEN [scen EXCEPT !.sent = hd.off + hd.cl, !.npatch = @ + 1, !.who = p]
                   ELSE ScenOff
      /\ IF PatchHeadersMissing(hd)
           THEN Becomes(p, [World(p) EXCEPT !.l = Done(l0, "MissingHeader", None)])
         ELSE IF ~file.exists
           THEN Becomes(p, [World(p) EXCEPT !.l = Done(l0, "AttributeError", None)])
         ELSE Becomes(p, [World(p) EXCEPT !.f._current_upload = hd.off,
                                          !.l = [l0 EXCEPT !.pc = "read",
                                                           !.toread = hd.cl]])

tus_patch(p, reqs) ==
  \E hd \in reqs :
    /\ CanStart(p)
    /\ nreq' = nreq + 1
    /\ PatchStart(p, hd)

\* ---- GCloudFileManager.tus_create, lines 162-193, up to the POST of initUpload
tus_create(p, reqs) ==
  \E hd \in reqs, delOk \in BOOLEAN :
    /\ CanStart(p)
    /\ nreq' = nreq + 1
    /\ IF hd.override
         THEN PatchStart(p, hd)
         ELSE LET f0 == IF file.exists THEN file ELSE NewFile
                  f1 == [f0 EXCEPT !._current_upload = IF hd.cl = Absent THEN 0 ELSE hd.cl]
                  f2 == [f1 EXCEPT !._size = hd.len,
                                   !._md5hash = IF hd.md5 = Absent THEN @ ELSE hd.md5,
                                   !._extension = IF hd.ext = Absent THEN @ ELSE hd.ext]
                  f3 == [f2 EXCEPT !.filename = IF hd.meta THEN 2 ELSE 3]
                  l0 == [Fresh(p, "create", hd) EXCEPT !.lacks = (hd.len = Absent)]
              IN  IF CreateLengthMissing(hd)
                    THEN /\ Becomes(p, [World(p) EXCEPT !.f = f1,
                                          !.l = Done(l0, "MissingHeader", None)])
                         /\ nextId' = nextId
                         /\ scen' = ScenOff
                  ELSE IF ~hd.tus
                    THEN /\ Becomes(p, [World(p) EXCEPT !.f = f2,
                                          !.l = Done(l0, "MissingHeader", None)])
                         /\ nextId' = nextId
                         /\ scen' = ScenOff
                  ELSE /\ Becomes(p, initUpload([World(p) EXCEPT !.f = f3, !.l = l0],
                                                nextId, delOk))
                       /\ nextId' = nextId + 1
                       /\ scen' = IF Quiet(p) THEN [ScenOff EXCEPT !.pending = p]
                                  ELSE ScenOff

\* ---- the backend answers the POST of initUpload; the handler takes the answer
\* and leaves the "async with" block
PostAnswer(p) ==
  \E status \in {200, 503} :
    /\ h[p].pc = "post"
    /\ Becomes(p, initUploadAnswer(World(p), status))
    /\ scen' = IF status = 200 /\ h[p].kind = "create" /\ scen.pending = p
                 THEN [ScenOff EXCEPT !.ok = TRUE, !.L = file._size, !.key = h[p].key]
                 ELSE ScenOff
    /\ UNCHANGED <<nextId, nreq>>

\* ---- initUpload, the "async with" block of the POST is left; the handler goes
\* on to its response (tus_create) or to the first read of the body (upload)
PostExit(p) ==
  /\ h[p].pc = "postexit"
  /\ Becomes(p, initUploadReturns(World(p)))
  /\ UNCHANGED <<nextId, nreq, scen>>

\* ---- request.content.readexactly returns; the loop goes on to its next PUT or ends
Read(p) ==
  \E delOk \in BOOLEAN :
    /\ h[p].pc = "read"
    /\ LET w0 == World(p)
           w1 == [w0 EXCEPT !.l.rd = ReadExactly(@, w0.l.avail, w0.l.toread)]
           w2 == LoopHead(w1, delOk)
       IN  /\ Becomes(p, w2)
           /\ scen' = IF scen.ok /\ scen.who = p
                        THEN [scen EXCEPT !.nput = @ + (w2.l.nput - w0.l.nput)]
                        ELSE scen
    /\ UNCHANGED <<nextId, nreq>>

\* ---- the backend acts on the PUT of appendData and answers it
BackendAnswersPut(p, statuses, partial, continues) ==
  \E status \in statuses, hdr \in RangeHeaders(h[p].put, partial) :
    /\ h[p].pc = "put"
    /\ status # 308 => hdr = NoHeader
    /\ status = 308 => h[p].ncont < continues
    /\ objs' = BackendPut(objs, h[p].put, status)
    /\ h' = [h EXCEPT ![p].pc = "answer",
                       ![p].ans = [status |-> status, hdr |-> hdr]]
    /\ UNCHANGED <<file, nextId, events, nreq, scen>>

\* ---- appendData, lines 409-414: the answer is read and _current_upload set
\* from it, inside the "async with" block, which is then left (with KeyError
\* raised when a 308 has no Range header)
appendDataAnswered(p) ==
  /\ h[p].pc = "answer"
  /\ LET status == h[p].ans.status
         hdr == h[p].ans.hdr
         f1 == IF status = 308 /\ hdr = NoHeader THEN file
               ELSE appendData(file, status, hdr)
     IN  /\ file' = f1
         /\ h' = [h EXCEPT ![p].pc = "aexit",
                            ![p].moved = IF status = 308 THEN @
                                         ELSE @ \/ f1._current_upload # file._current_upload]
  /\ UNCHANGED <<objs, nextId, events, nreq, scen>>

\* ---- appendData, lines 415-416: the block is left and appendData returns; the
\* handler runs the rest of the turn of its loop with the file as it is by then,
\* up to the next PUT, the next read, the notify of finishUpload (tus_patch), or
\* its end
appendDataReturns(p) ==
  \E delOk \in BOOLEAN :
    /\ h[p].pc = "aexit"
    /\ LET l == h[p]
           status == l.ans.status
           hdr == l.ans.hdr
           rs1 == IF l.put.uri = scen.key
                    THEN StoredBytes(scen.runs, l.put, status, hdr) ELSE scen.runs
           acked == ParseRange(hdr) + 1
           la == [l EXCEPT !.ans = NoAnswer]
           l1 == IF status = 308
                   THEN [la EXCEPT !.tries = 0, !.trans = 0, !.moved = FALSE,
                                   !.ncont = @ + 1,
                                   !.ackd = IF acked < file._size THEN acked ELSE None]
                 ELSE IF status \in {200, 201}
                   THEN [la EXCEPT !.ackd = None]
                 ELSE [la EXCEPT !.ackd = None, !.trans = @ + 1]
           w1 == [f |-> file, o |-> objs, l |-> l1, ev |-> events]
           w2 == IF l.kind = "upload" THEN UploadAfter(w1, status, delOk)
                 ELSE PatchAfter(w1, status, delOk)
           good308 == /\ status = 308
                      /\ l.put.start <= acked /\ acked <= l.put.start + l.put.n
           good200 == status \in {200, 201} /\ l.base + l.rd = scen.L
       IN  IF status = 308 /\ hdr = NoHeader
             THEN /\ Becomes(p, [World(p) EXCEPT !.l = Done(l, "KeyError", None)])
                  /\ scen' = IF scen.ok /\ scen.who = p THEN ScenOff ELSE scen
             ELSE /\ Becomes(p, w2)
                  /\ scen' = IF ~(scen.ok /\ scen.who = p) THEN scen
                             ELSE IF good308
                               THEN [scen EXCEPT !.nput = @ + (w2.l.nput - l.nput),
                                                 !.runs = rs1]
                             ELSE IF good200
                               THEN [scen EXCEPT !.fin = TRUE, !.runs = rs1]
                             ELSE ScenOff
    /\ UNCHANGED <<nextId, nreq>>

\* ---- finishUpload, line 435: notify returns to tus_patch, which goes on from
\* line 237 to its response, reading the file as it is by then
Notified(p) ==
  /\ h[p].pc = "notify"
  /\ Becomes(p, PatchAfterNotify(World(p)))
  /\ UNCHANGED <<nextId, nreq, scen>>

\* ---- GCloudFileManager.tus_head
\* (tus_head_resets is the variant that writes _current_upload while answering)
tus_head_resets(p) ==
  /\ CanStart(p)
  /\ nreq' = nreq + 1
  /\ file' = [file EXCEPT !._current_upload = 0]
  /\ h' = [h EXCEPT ![p] = Done([IdleL EXCEPT !.kind = "head"], "head",
                                 actualSize(file))]
  /\ UNCHANGED <<objs, nextId, events, scen>>

tus_head(p) ==
  /\ CanStart(p)
  /\ nreq' = nreq + 1
  /\ LET l0 == [IdleL EXCEPT !.kind = "head"]
     IN  IF ~file.exists
           THEN /\ h' = [h EXCEPT ![p] = Done(l0, "KeyError", None)]
                /\ scen' = scen
           ELSE /\ h' = [h EXCEPT ![p] =
                           [Done(l0, "head", actualSize(file))
                              EXCEPT !.length = IF size(file) \in {None, 0} THEN None
                                                ELSE file._size]]
                /\ scen' = IF scen.ok /\ scen.fin
                             THEN [scen EXCEPT !.heads = @ \cup {actualSize(file)}]
                             ELSE scen
  /\ UNCHANGED <<file, objs, nextId, events>>

\* ---- GCloudFileManager.tus_options
tus_options(p) ==
  /\ CanStart(p)
  /\ nreq' = nreq + 1
  /\ h' = [h EXCEPT ![p] = Done([IdleL EXCEPT !.kind = "options"], "options", None)]
  /\ UNCHANGED <<file, objs, nextId, events, scen>>

\* ---- GCloudFileManager.download, lines 297-308, and GCloudFile.download: up to
\* await resp.prepare; n is the size of the object the backend holds
download(p) ==
  \E n \in ObjectSizes :
    /\ CanStart(p)
    /\ nreq' = nreq + 1
    /\ LET l0 == [IdleL EXCEPT !.kind = "download"]
           url == IF file._uri = Unset THEN file._upload_file_id ELSE file._uri
       IN  h' = [h EXCEPT ![p] =
                   IF ~file.exists \/ url = Unset
                     THEN Done(l0, "AttributeError", None)
                     ELSE [l0 EXCEPT !.pc = "prepare", !.key = url, !.dl.N = n]]
    /\ UNCHANGED <<file, objs, nextId, events, scen>>

\* resp.prepare returns; the loop is entered and next_chunk is called
Prepared(p) ==
  /\ h[p].pc = "prepare"
  /\ h' = [h EXCEPT ![p].pc = "chunk"]
  /\ UNCHANGED <<file, objs, nextId, events, nreq, scen>>

\* lines 313-317: next_chunk returns with c more bytes of the object in the buffer
\* (an HttpError if there is no such object); the buffer is read from its start
\* and written to the response, whose drain is awaited
NextChunk(p) ==
  /\ h[p].pc = "chunk"
  /\ LET l == h[p]
         d == l.dl
     IN  IF ~IsSet(l.key) \/ objs[l.key].st # "complete"
           THEN h' = [h EXCEPT ![p] = Done(l, "HttpError", None)]
           ELSE \E c \in ChunkLens(d.N - d.progress) :
                  LET b1 == BufSeek(BufWrite(d.buf, d.progress, c))
                      n == BufRead(b1)
                      b2 == [b1 EXCEPT !.pos = b1.pos + n]
                  IN  h' = [h EXCEPT ![p].pc = "drain",
                                     ![p].dl =
                                       [d EXCEPT !.progress = d.progress + c,
                                                 !.done = (d.progress + c = d.N),
                                                 !.buf = b2,
                                                 !.out = d.out + n,
                                                 !.pend = d.pend + n,
                                                 !.inorder = /\ d.inorder
                                                             /\ ~b1.mixed
                                                             /\ n = c
                                                             /\ b1.start + b1.pos = d.out]]
  /\ UNCHANGED <<file, objs, nextId, events, nreq, scen>>

\* lines 318-322: resp.drain returns; the buffer is emptied and the loop ends if
\* the reader reported done, else calls next_chunk again
Drained(p) ==
  /\ h[p].pc = "drain"
  /\ LET l == h[p]
         l1 == [l EXCEPT !.dl.pend = 0, !.dl.buf = BufTruncate(BufSeek(l.dl.buf))]
     IN  h' = [h EXCEPT ![p] = IF l.dl.done THEN Done(l1, "ok", None)
                               ELSE [l1 EXCEPT !.pc = "chunk"]]
  /\ UNCHANGED <<file, objs, nextId, events, nreq, scen>>

Init ==
  /\ file = NoFile
  /\ objs = [k \in Keys |-> NoObject]
  /\ nextId = 1
  /\ h = [p \in Procs |-> IdleL]
  /\ events = [init |-> Unset, finish |-> Unset]
  /\ nreq = 0
  /\ scen = ScenOff

\* the requests of a slot served one after the other
Next ==
  \E p \in {1} :
    \/ upload(p, UploadRequests)
    \/ tus_create(p, CreateRequests)
    \/ tus_patch(p, PatchRequests)
    \/ tus_head(p)
    \/ tus_options(p)
    \/ PostAnswer(p)
    \/ PostExit(p)
    \/ Read(p)
    \/ BackendAnswersPut(p, Statuses, TRUE, MaxContinues)
    \/ appendDataAnswered(p)
    \/ appendDataReturns(p)
    \/ Notified(p)

Spec == Init /\ [][Next]_vars

\* two requests of a slot in flight at once: every await hands control to the
\* event loop, which may run any other handler
ConcUploads == {[size |-> 10, md5 |-> 1, ext |-> 1, fname |-> 1, avail |-> 10]}
ConcCreates ==
  {[override |-> FALSE, cl |-> 0, len |-> 10, md5 |-> 1, ext |-> 1, tus |-> TRUE,
    meta |-> TRUE, off |-> Absent, avail |-> 0]}
ConcPatches == {[cl |-> 5, off |-> 0, avail |-> 5], [cl |-> 5, off |-> 5, avail |-> 5]}

ConcStatuses == {200, 308}

NextConc ==
  \E p \in Procs :
    \/ upload(p, ConcUploads)
    \/ tus_create(p, ConcCreates)
    \/ tus_patch(p, ConcPatches)
    \/ tus_head(p)
    \/ tus_options(p)
    \/ PostAnswer(p)
    \/ PostExit(p)
    \/ Read(p)
    \/ BackendAnswersPut(p, ConcStatuses, FALSE, ConcContinues)
    \/ appendDataAnswered(p)
    \/ appendDataReturns(p)
    \/ Notified(p)

SpecConc == Init /\ [][NextConc]_vars

\* uploads followed by downloads of the slot's object
NextDownload ==
  \E p \in {1} :
    \/ upload(p, ConcUploads)
    \/ tus_create(p, ConcCreates)
    \/ tus_patch(p, ConcPatches)
    \/ PostAnswer(p)
    \/ PostExit(p)
    \/ Read(p)
    \/ BackendAnswersPut(p, ConcStatuses, FALSE, MaxContinues)
    \/ appendDataAnswered(p)
    \/ appendDataReturns(p)
    \/ Notified(p)
    \/ download(p)
    \/ Prepared(p)
    \/ NextChunk(p)
    \/ Drained(p)

SpecDownload == Init /\ [][NextDownload]_vars


\* ==== the claims

\* C1 (as stated): with a session open, a Patch whose Upload-Offset differs from
\* the recorded _current_upload is rejected: the only Patches that go on to read
\* their body and append are those that declare the recorded offset.
C1_MismatchedPatchRejected ==
  [][\A p \in Procs :
       (/\ h[p].pc \in {"idle", "done"}
        /\ h'[p].kind = "patch"
        /\ h'[p].pc = "read"
        /\ IsSet(file._resumable_uri))
       => (/\ h'[p].base = file._current_upload
           /\ file'._current_upload = file._current_upload)]_vars

\* C2 (as stated): with a session open (so that _size is known),
\* _current_upload <= _size in every state.
C2_AcceptedWithinSize ==
  (file.exists /\ file._size # Unset /\ IsSet(file._resumable_uri))
    => file._current_upload <= file._size

\* C3 (as stated): within one session (the same _resumable_uri) no step of a
\* Patch, of an append loop or of Head lowers _current_upload.
C3_Monotone ==
  [][\A p \in Procs :
       (/\ h'[p] # h[p]
        /\ IsSet(file._resumable_uri)
        /\ file'._resumable_uri = file._resumable_uri
        /\ \/ h'[p].kind \in {"patch", "head"}
           \/ h'[p].kind = "upload" /\ h[p].pc \in {"read", "put", "answer", "aexit"})
       => file'._current_upload >= file._current_upload]_vars

\* C4 (as stated): when the resume scenario has run to its end (Create of L bytes,
\* Patches at the matching offsets, 308 answers and a final 200/201), the object
\* holds exactly the L bytes of the client's file, each at its own position.
C4_ResumeByteExact ==
  (scen.ok /\ scen.fin) => ExactContent(scen.runs, scen.L)

\* C5 (as stated): _uri only ever names an object the backend has answered
\* Complete for: finishUpload never runs while the pending object is incomplete.
C5_FinalizedOnlyWhenComplete ==
  (file.exists /\ IsSet(file._uri)) => objs[file._uri].st = "complete"

\* C6 (as stated): as long as every Append of a chunk (every PUT since the
\* request began or the last 308) is answered with a transient status, the loop
\* sends the chunk again, until the fifth attempt has been so answered: then the
\* request ends with the max-retries error; _current_upload is unchanged by the
\* attempts.
C6_FailsAfterFiveAttempts ==
  [][\A p \in Procs :
       (/\ h[p].pc = "aexit"
        /\ h[p].ans.status \notin {200, 201, 308}
        /\ h[p].trans + 1 = h[p].tries
        /\ h'[p] # h[p])
       => /\ ~h[p].moved
          /\ IF h[p].tries < MAX_RETRIES
               THEN h'[p].pc = "put"
               ELSE h'[p].pc = "done" /\ h'[p].result = "MaxRetries"]_vars

\* C7 (as stated): at most one PUT of appendData is in flight for the slot.
C7_OneAppendInFlight ==
  Cardinality({p \in Procs : h[p].pc \in {"put", "answer", "aexit"}}) <= 1

\* C8 (as stated): in the resume scenario, after a 308 that acknowledged k bytes
\* (k < _size) the next PUT starts at byte k and carries the client's bytes from
\* position k on.
C8_NextAppendStartsAtAck ==
  \A p \in Procs :
    (scen.ok /\ scen.who = p /\ h[p].pc = "put" /\ h[p].ackd # None)
      => (h[p].put.start = h[p].ackd /\ h[p].put.ident = h[p].ackd)

\* C9: after Create of N bytes and one Patch at offset 0 with all N bytes whose
\* first PUT is answered 200/201, the upload is finalized (_uri is the pending
\* key, _upload_file_id is None, FinishGCloudUpload was notified, the object is
\* complete) and every Head since reported Upload-Offset N.
C9_ScenarioA ==
  (scen.ok /\ scen.fin /\ scen.npatch = 1 /\ scen.nput = 1)
    => /\ file._uri = scen.key
       /\ file._upload_file_id = None
       /\ events.finish = scen.key
       /\ objs[scen.key].st = "complete"
       /\ file._current_upload = scen.L
       /\ scen.heads \subseteq {scen.L}

C9_Witness ==
  scen.ok /\ scen.fin /\ scen.npatch = 1 /\ scen.nput = 1 /\ scen.heads = {scen.L}

\* C10: a Head or Options request changes nothing of the GCloudFile, of the
\* backend or of the notifications, and leaves no request to the backend in flight.
C10_HeadReadOnly ==
  [][\A p \in Procs :
       (/\ nreq' = nreq + 1
        /\ \A q \in Procs \ {p} : h'[q] = h[q]
        /\ h'[p].pc = "done"
        /\ h'[p].result \in {"head", "options"})
       => UNCHANGED <<file, objs, nextId, events>>]_vars

C10_Witness ==
  \E p \in Procs :
    /\ h[p].result = "head"
    /\ h[p].offset > 0
    /\ IsSet(file._resumable_uri)

\* C11: a Patch whose body ends before the declared CONTENT-LENGTH raises nothing
\* for it: with a session open, the bytes received are what its first PUT carries
\* (none received: no PUT), and when the Patch ends after a PUT it returns its
\* normal response with Upload-Offset = _current_upload, unless the backend's
\* answers made it fail (a 308 without Range, or the retries used up).
C11_ShortReadAppended ==
  [][\A p \in Procs :
       /\ (/\ h[p].kind = "patch" /\ h[p].pc = "read" /\ h[p].nput = 0
           /\ h[p].avail < h[p].cl
           /\ IsSet(file._resumable_uri) /\ file._size # Unset
           /\ h'[p] # h[p])
          => IF h[p].avail > 0
               THEN /\ h'[p].pc = "put"
                    /\ h'[p].put.n = h[p].avail
                    /\ h'[p].put.ident = h[p].base
                    /\ h'[p].put.start = file._current_upload
                    /\ file' = file
               ELSE /\ h'[p].result = "ok"
                    /\ h'[p].offset = file._current_upload
       /\ (/\ h[p].kind = "patch" /\ h[p].pc \in {"aexit", "notify"}
           /\ h[p].avail < h[p].cl
           /\ IsSet(file._resumable_uri_date)
           /\ h'[p].pc = "done")
          => /\ h'[p].result \in {"ok", "KeyError", "MaxRetries"}
             /\ h'[p].result = "ok" => h'[p].offset = file'._current_upload]_vars

C11_Witness ==
  \E p \in Procs :
    /\ h[p].kind = "patch" /\ h[p].pc = "put" /\ h[p].nput = 1
    /\ h[p].avail > 0 /\ h[p].avail < h[p].cl
    /\ h[p].put.n = h[p].avail
    /\ IsSet(file._resumable_uri)

\* C12: a download of the finalized object writes the object's bytes in order,
\* each once: every write continues where the last one ended, never more than N
\* bytes are written, the loop calls next_chunk only while the reader has not
\* reported done, and it ends, all N bytes written, once it has.
C12_DownloadExact ==
  \A p \in Procs :
    h[p].kind = "download"
      => /\ h[p].dl.inorder
         /\ h[p].dl.out <= h[p].dl.N
         /\ h[p].pc = "chunk" => ~h[p].dl.done
         /\ (h[p].pc = "done" /\ h[p].result = "ok")
              => (h[p].dl.done /\ h[p].dl.out = h[p].dl.N)
         /\ (h[p].pc = "drain" /\ h[p].dl.done) => h[p].dl.out = h[p].dl.N

C12_Witness ==
  \E p \in Procs :
    /\ h[p].kind = "download" /\ h[p].result = "ok"
    /\ h[p].dl.N = 1000000 /\ h[p].dl.out = 1000000
    /\ IsSet(file._uri) /\ objs[file._uri].st = "complete"

\* C17: whenever the download loop asks the reader for a chunk, everything
\* fetched so far has been written to the response and drained and the staging
\* buffer is empty; the buffer never holds more than one chunk.
C17_DrainedBeforeNextChunk ==
  \A p \in Procs :
    h[p].kind = "download"
      => /\ h[p].dl.buf.len <= CHUNK_SIZE
         /\ h[p].pc = "chunk"
              => /\ h[p].dl.buf.len = 0
                 /\ h[p].dl.pend = 0
                 /\ h[p].dl.out = h[p].dl.progress

C17_Witness ==
  \E p \in Procs :
    /\ h[p].kind = "download" /\ h[p].pc = "chunk"
    /\ h[p].dl.progress > 0 /\ h[p].dl.buf.len = 0

\* C13: a Create without UPLOAD-LENGTH and a Patch without CONTENT-LENGTH or
\* without UPLOAD-OFFSET end at once with the missing-header error, and the
\* request has sent nothing to the backend: no POST or PUT is in flight, no
\* object was deleted, opened or written, no object key was drawn and no upload
\* was notified.
C13_MissingHeaderRejected ==
  [][\A p \in Procs :
       /\ h'[p].lacks => (h'[p].pc = "done" /\ h'[p].result = "MissingHeader")
       /\ (/\ h'[p].lacks
           /\ nreq' = nreq + 1
           /\ \A q \in Procs \ {p} : h'[q] = h[q])
          => (/\ h'[p].nput = 0 /\ h'[p].key = None
              /\ UNCHANGED <<objs, nextId, events>>)]_vars

C13_Witness ==
  \E p \in Procs :
    /\ h[p].lacks /\ h[p].kind = "patch" /\ h[p].result = "MissingHeader"
    /\ IsSet(file._resumable_uri) /\ IsSet(file._upload_file_id)
    /\ objs[file._upload_file_id].st = "open"

\* C14 (as stated): when a PUT is answered with a transient status and the loop
\* retries, the next PUT is the same as the one answered (same range start, same
\* length, same bytes) and _current_upload has not changed.
C14_RetryIdenticalChunk ==
  [][\A p \in Procs :
       (/\ h[p].pc = "aexit" /\ h'[p].pc = "put"
        /\ h'[p].trans = h[p].trans + 1)
       => (/\ h'[p].put.start = h[p].put.start
           /\ h'[p].put.n = h[p].put.n
           /\ h'[p].put.ident = h[p].put.ident
           /\ file'._current_upload = file._current_upload)]_vars

\* C15 (as stated): a Patch or direct upload that delivers zero bytes when
\* _current_upload already equals _size finalizes the pending upload:
\* finishUpload has run when the request ends.
C15_ZeroLengthFinalizes ==
  [][\A p \in Procs :
       (/\ h[p].kind \in {"patch", "upload"}
        /\ h[p].pc = "read" /\ h[p].nput = 0 /\ h[p].avail = 0
        /\ IsSet(file._resumable_uri) /\ IsSet(file._upload_file_id)
        /\ file._current_upload = file._size
        /\ h'[p].pc = "done")
       => (/\ file'._uri = file._upload_file_id
           /\ file'._upload_file_id = None
           /\ events'.finish = file._upload_file_id)]_vars

\* C16: a Create or direct upload that has its headers goes on to the POST
\* whatever the delete of the slot's pending object did, with that delete asked
\* for first and a key never used before; when the POST is answered 200 the file
\* has that key as _upload_file_id and its session as _resumable_uri,
\* _current_upload = 0, the session's date, and InitialGCloudUpload is notified.
\* finishUpload moves the pending key to _uri and notifies FinishGCloudUpload
\* whether or not the delete of the previous _uri object succeeded, and raises
\* nothing: the upload ends normally, the Patch goes on after the notify.
C16_InitiationBestEffortDelete ==
  [][\A p \in Procs :
       /\ (/\ h[p].pc \in {"idle", "done"}
           /\ h'[p].kind \in {"create", "upload"}
           /\ nreq' = nreq + 1
           /\ \A q \in Procs \ {p} : h'[q] = h[q]
           /\ h'[p].result # "MissingHeader")
          => (/\ h'[p].pc = "post"
              /\ IsSet(file._upload_file_id) => h'[p].del = file._upload_file_id
              /\ h'[p].key = file'._upload_file_id
              /\ h'[p].key # file._upload_file_id
              /\ objs[h'[p].key].st = "none")
       /\ (/\ h[p].pc = "postexit" /\ h'[p] # h[p]
           /\ h'[p].result # "GoogleCloudException")
          => (/\ file'._upload_file_id = h[p].key
              /\ file'._resumable_uri = h[p].key
              /\ file'._current_upload = 0
              /\ file'._resumable_uri_date = h[p].key
              /\ objs'[h[p].key].st = "open"
              /\ events'.init = h[p].key)
       /\ (/\ h'[p] # h[p]
           /\ IsSet(file._upload_file_id) /\ file'._upload_file_id = None)
          => (/\ file'._uri = file._upload_file_id
              /\ events'.finish = file._upload_file_id
              /\ \/ h'[p].pc = "notify"
                 \/ h'[p].pc = "done" /\ h'[p].result = "ok")]_vars

C16_Witness ==
  \E p \in Procs :
    /\ h[p].result = "created"
    /\ h[p].del # None /\ ~h[p].delok
    /\ file._upload_file_id # h[p].del
    /\ file._resumable_uri = file._upload_file_id
    /\ file._current_upload = 0
    /\ IsSet(file._uri) /\ objs[file._uri].st = "complete"

\* C18 (as stated): once an upload is finalized and no new upload is pending,
\* no step changes _uri or removes the object it names: a repeated Patch that
\* the backend again answers 200/201 leaves the committed object in place.
C18_CommittedObjectKept ==
  [][(/\ file.exists
      /\ IsSet(file._uri) /\ objs[file._uri].st = "complete"
      /\ file._upload_file_id = None)
     => (/\ file'._uri = file._uri
         /\ objs'[file._uri].st = "complete")]_vars

\* C19 (as stated, through the progress every turn must make for the loop to
\* end): a 308 answer after which the loop goes on never leaves the loop where
\* it was before the PUT, with the same data (nothing cut from the buffer,
\* nothing more to read) and the same _current_upload; were it so, the same
\* answer given again and again would keep the loop turning for ever.
C19_ContinueMakesProgress ==
  [][\A p \in Procs :
       (/\ h[p].pc = "aexit" /\ h'[p].pc = "read"
        /\ h'[p].ncont = h[p].ncont + 1)
       => ~(/\ file'._current_upload = h[p].old
            /\ h'[p].da = h[p].da
            /\ ReadExactly(h'[p].rd, h'[p].avail, h'[p].toread) = h[p].rd
            /\ h'[p].count = 0)]_vars

\* C20 (as stated): whenever no POST of initUpload is in flight, the pending key
\* and the session belong together: _resumable_uri is the session that was
\* opened for the object _upload_file_id names.
C20_PendingKeyMatchesSession ==
  (/\ file.exists
   /\ IsSet(file._upload_file_id) /\ IsSet(file._resumable_uri)
   /\ \A p \in Procs : h[p].pc \notin {"post", "postexit"})
    => file._resumable_uri = file._upload_file_id

\* C21 (as stated): a Create or Patch that ends with the missing-header error
\* while a session exists leaves _current_upload, _size, _md5hash and _extension
\* as they were before the request.
C21_RejectedRequestKeepsSession ==
  [][\A p \in Procs :
       (/\ nreq' = nreq + 1
        /\ \A q \in Procs \ {p} : h'[q] = h[q]
        /\ h'[p].kind \in {"create", "patch"}
        /\ h'[p].pc = "done" /\ h'[p].result = "MissingHeader"
        /\ file.exists /\ IsSet(file._resumable_uri))
       => (/\ file'._current_upload = file._current_upload
           /\ file'._size = file._size
           /\ file'._md5hash = file._md5hash
           /\ file'._extension = file._extension)]_vars

====
